---- MODULE Spec2Model ----
(***************************************************************************)
(* A model of the compliance-report pipeline of src/app.py:                *)
(*   extract_pdf_text     pages of one regulation PDF -> capped plain text *)
(*   resolve_korean_font  first existing font candidate, registered once   *)
(*   build_pdf_bytes      escaped paragraphs of the report                 *)
(*   main                 one Streamlit script run per widget interaction  *)
(* A Python str is a sequence of one-character strings.                    *)
(***************************************************************************)
EXTENDS Integers, Sequences, FiniteSets, TLC

VARIABLES
    ex_doc,       \* extract_pdf_text: the document handed to the call
    ex_max,       \* extract_pdf_text: its max_chars argument
    ex_out,       \* extract_pdf_text: [state, text] of the last call
    fs,           \* what the filesystem holds at each font candidate's path
    registered,   \* pdfmetrics' process-wide registry: the registered font names
    reg_count,    \* per font name, the registerFont calls made so far
    font_log,     \* the resolve_korean_font calls completed so far, in order
    th_pc,        \* per thread, its position in resolve_korean_font
    th_snap,      \* per thread, its local `registered` set (line 61)
    pdf_in,       \* build_pdf_bytes: its arguments
    story,        \* build_pdf_bytes: the paragraphs handed to doc.build
    agg_in,       \* the two documents of one aggregation
    agg_out,      \* [done, texts, law_text]: their extraction outputs, aggregated
    api_key,      \* main: whether the sidebar holds an API key
    uploaded,     \* main: the floor-plan uploader's file, [set, valid, name]
    law_pdfs,     \* main: the regulation uploader's documents, in order
    session_state,\* main: st.session_state, [keys, analysis_result, _time, _file]
    run           \* main: what the last script run did

ex_vars == <<ex_doc, ex_max, ex_out>>
font_vars == <<fs, registered, reg_count, font_log>>
th_vars == <<th_pc, th_snap>>
pdf_vars == <<pdf_in, story>>
agg_vars == <<agg_in, agg_out>>
main_vars == <<api_key, uploaded, law_pdfs, session_state, run>>
vars == <<ex_vars, font_vars, th_vars, pdf_vars, agg_vars, main_vars>>

(***************************************************************************)
(* Bounds of the model.                                                    *)
(***************************************************************************)
MaxPages == 3
MaxPageLen == 2
MaxCharsArg == 4
\* max_chars defaults to 500000 (src/app.py:18); the model scales the default
\* to the lengths of its texts so that a document can exceed it.
max_chars_default == 8
MaxFontCalls == 3
NumThreads == 2
MaxBodyLen == 3
MaxNameLen == 1
MaxOutputLen == 3
MaxBatch == 2

(***************************************************************************)
(* Python str operations used by the program.                              *)
(***************************************************************************)
Min(a, b) == IF a < b THEN a ELSE b
Max(a, b) == IF a > b THEN a ELSE b

\* the characters str.strip() removes (the whitespace the model's texts hold)
WS == {" ", "\n"}

RECURSIVE lstrip(_)
lstrip(s) == IF s # <<>> /\ Head(s) \in WS THEN lstrip(Tail(s)) ELSE s

RECURSIVE rstrip(_)
rstrip(s) ==
    IF s # <<>> /\ s[Len(s)] \in WS THEN rstrip(SubSeq(s, 1, Len(s) - 1)) ELSE s

\* str.strip()
strip(s) == rstrip(lstrip(s))

\* sep.join(xs)
RECURSIVE join(_, _)
join(sep, xs) ==
    IF xs = <<>> THEN <<>>
    ELSE IF Len(xs) = 1 THEN xs[1]
    ELSE xs[1] \o sep \o join(sep, Tail(xs))

\* s[:n], with Python's meaning of a negative n
slice(s, n) ==
    IF n >= 0 THEN SubSeq(s, 1, Min(n, Len(s)))
    ELSE SubSeq(s, 1, Max(0, Len(s) + n))

\* all strings over the characters cs of length at most n
RECURSIVE StringsUpTo(_, _)
StringsUpTo(cs, n) ==
    IF n = 0 THEN {<<>>}
    ELSE LET shorter == StringsUpTo(cs, n - 1)
         IN  shorter \cup {<<c>> \o s : c \in cs, s \in {t \in shorter : Len(t) = n - 1}}

RECURSIVE SeqsUpTo(_, _)
SeqsUpTo(S, n) ==
    IF n = 0 THEN {<<>>}
    ELSE LET shorter == SeqsUpTo(S, n - 1)
         IN  shorter \cup {<<x>> \o s : x \in S, s \in {t \in shorter : Len(t) = n - 1}}

(***************************************************************************)
(* extract_pdf_text (src/app.py:18-26).  A document is [ok, pages]: ok is  *)
(* FALSE when PdfReader cannot parse the bytes, pages holds what           *)
(* page.extract_text() gives for each page ("" for a page without text).   *)
(***************************************************************************)
NN == <<"\n", "\n">>

\* lines 20-24: the chunks list after the loop over reader.pages
RECURSIVE Chunks(_)
Chunks(pages) ==
    IF pages = <<>> THEN <<>>
    ELSE LET text == Head(pages)
         IN  (IF text # <<>> THEN <<strip(text)>> ELSE <<>>) \o Chunks(Tail(pages))

\* cutting the joined text before trimming it
extract_cut_first(pages, max_chars) ==
    strip(slice(join(NN, Chunks(pages)), max_chars))

\* lines 25-26
extract_pdf_text(pages, max_chars) ==
    LET full_text == strip(join(NN, Chunks(pages)))
    IN  slice(full_text, max_chars)

PageChars == {"a", " "}
PageTexts == StringsUpTo(PageChars, MaxPageLen)
Documents ==
    {[ok |-> TRUE, pages |-> p] : p \in SeqsUpTo(PageTexts, MaxPages)}
        \cup {[ok |-> FALSE, pages |-> <<>>]}
MaxCharsArgs == (1..MaxCharsArg) \cup {max_chars_default}

NoCall == [state |-> "idle", text |-> <<>>]

\* one call extract_pdf_text(ex_doc, ex_max) that returns
ExtractReturn ==
    /\ ex_out.state = "idle"
    /\ ex_doc.ok
    /\ ex_out' = [state |-> "returned", text |-> extract_pdf_text(ex_doc.pages, ex_max)]
    /\ UNCHANGED <<ex_doc, ex_max, font_vars, th_vars, pdf_vars, agg_vars, main_vars>>

\* line 19: PdfReader raises on bytes that are no PDF; nothing catches it here
ExtractRaise ==
    /\ ex_out.state = "idle"
    /\ ~ex_doc.ok
    /\ ex_out' = [state |-> "raised", text |-> <<>>]
    /\ UNCHANGED <<ex_doc, ex_max, font_vars, th_vars, pdf_vars, agg_vars, main_vars>>

(***************************************************************************)
(* Claims about extract_pdf_text.                                          *)
(***************************************************************************)
\* longer than any text the bounded documents produce
TextLenBound == MaxPages * (MaxPageLen + 2)
Untruncated(pages) == extract_pdf_text(pages, TextLenBound)

RECURSIVE TextBlocks(_)
TextBlocks(pages) ==
    IF pages = <<>> THEN <<>>
    ELSE (IF strip(Head(pages)) # <<>> THEN <<strip(Head(pages))>> ELSE <<>>)
             \o TextBlocks(Tail(pages))

\* C1: when max_chars does not truncate, the result is the text blocks of the
\* pages that hold text, one block per such page, consecutive blocks separated
\* by exactly one blank line; no page (a whitespace-only page included)
\* contributes an empty block or an extra blank line; no block gives "".
C1_BlocksSeparatedByOneBlankLine ==
    (ex_out.state = "returned" /\ Len(Untruncated(ex_doc.pages)) <= ex_max)
        => ex_out.text = join(NN, TextBlocks(ex_doc.pages))

\* C10: the result is at most max_chars long; a longer trimmed joined text is cut
\* to exactly its first max_chars characters, a shorter one is returned whole.
C10_HardCut ==
    ex_out.state = "returned" =>
        LET full == Untruncated(ex_doc.pages)
            r == ex_out.text
        IN  /\ Len(r) <= ex_max
            /\ Len(full) > ex_max =>
                   /\ Len(r) = ex_max
                   /\ \A i \in 1..ex_max : r[i] = full[i]
            /\ Len(full) <= ex_max => r = full

C10_Witness ==
    /\ ex_out.state = "returned"
    /\ Len(Untruncated(ex_doc.pages)) > ex_max
    /\ ex_max >= 2
    /\ Len(ex_out.text) = ex_max

(***************************************************************************)
(* resolve_korean_font (src/app.py:53-67).                                 *)
(***************************************************************************)
\* lines 55-60: the candidates in priority order; a path is its index here
candidates == <<"NanumGothic", "NanumGothic", "MalgunGothic", "MalgunGothic">>
FontNames == {candidates[i] : i \in DOMAIN candidates}

\* at a candidate's path: no file, a TrueType font, or a file TTFont cannot load
FileKinds == {"absent", "font", "notfont"}

\* a loop that keeps the last match instead of returning at the first
last_existing(files) ==
    IF \E i \in DOMAIN candidates : files[i] # "absent"
    THEN CHOOSE i \in DOMAIN candidates :
             /\ files[i] # "absent"
             /\ \A j \in (i + 1)..Len(candidates) : files[j] = "absent"
    ELSE 0

\* lines 62-63: the first candidate whose path exists, 0 when none does
first_existing(files) ==
    IF \E i \in DOMAIN candidates : files[i] # "absent"
    THEN CHOOSE i \in DOMAIN candidates :
             /\ files[i] # "absent"
             /\ \A j \in 1..(i - 1) : files[j] = "absent"
    ELSE 0

\* registering without looking at the registry
register_always(name, snapshot) == TRUE

\* line 64
needs_register(name, snapshot) == name \notin snapshot

NoFont == [kind |-> "none", name |-> "", path |-> 0]
Raised == [kind |-> "raised", name |-> "", path |-> 0]
Font(i) == [kind |-> "font", name |-> candidates[i], path |-> i]

\* lines 62-67 run against the snapshot of line 61: what the call gives and
\* which name it registers (line 65 raises when the file is no font)
Resolve(files, snapshot) ==
    LET i == first_existing(files)
    IN  IF i = 0 THEN [ret |-> NoFont, reg |-> {}]
        ELSE IF ~needs_register(candidates[i], snapshot) THEN [ret |-> Font(i), reg |-> {}]
        ELSE IF files[i] = "font" THEN [ret |-> Font(i), reg |-> {candidates[i]}]
        ELSE [ret |-> Raised, reg |-> {}]

Bump(count, names) == [n \in FontNames |-> count[n] + (IF n \in names THEN 1 ELSE 0)]

\* one whole call, nothing else running
ResolveCall ==
    /\ Len(font_log) < MaxFontCalls
    /\ LET r == Resolve(fs, registered)
       IN  /\ registered' = registered \cup r.reg
           /\ reg_count' = Bump(reg_count, r.reg)
           /\ font_log' = Append(font_log,
                  [ret |-> r.ret, before |-> registered, after |-> registered',
                   registered_now |-> r.reg])
    /\ UNCHANGED <<fs, ex_vars, th_vars, pdf_vars, agg_vars, main_vars>>

(***************************************************************************)
(* resolve_korean_font called from several threads of one process (each    *)
(* Streamlit session runs its script in a thread of its own).              *)
(***************************************************************************)
Threads == 1..NumThreads

\* line 61: the thread copies the registry into its local set
Snapshot(t) ==
    /\ th_pc[t] = "start"
    /\ th_snap' = [th_snap EXCEPT ![t] = registered]
    /\ th_pc' = [th_pc EXCEPT ![t] = "loop"]
    /\ UNCHANGED <<font_vars, ex_vars, pdf_vars, agg_vars, main_vars>>

\* lines 62-67, deciding on the local copy
Finish(t) ==
    /\ th_pc[t] = "loop"
    /\ LET r == Resolve(fs, th_snap[t])
       IN  /\ registered' = registered \cup r.reg
           /\ reg_count' = Bump(reg_count, r.reg)
           /\ font_log' = Append(font_log,
                  [ret |-> r.ret, before |-> th_snap[t], after |-> registered',
                   registered_now |-> r.reg])
    /\ th_pc' = [th_pc EXCEPT ![t] = "done"]
    /\ UNCHANGED <<fs, th_snap, ex_vars, pdf_vars, agg_vars, main_vars>>

\* the thread's next script run calls the function again
Again(t) ==
    /\ th_pc[t] = "done"
    /\ Len(font_log) < MaxFontCalls
    /\ th_pc' = [th_pc EXCEPT ![t] = "start"]
    /\ UNCHANGED <<font_vars, th_snap, ex_vars, pdf_vars, agg_vars, main_vars>>

(***************************************************************************)
(* build_pdf_bytes (src/app.py:70-109): the markup of the three paragraphs *)
(* that carry free text, and how the Paragraph markup is read.             *)
(***************************************************************************)
\* str.replace(c, rep) for a one-character c
RECURSIVE replace(_, _, _)
replace(s, c, rep) ==
    IF s = <<>> THEN <<>>
    ELSE (IF Head(s) = c THEN rep ELSE <<Head(s)>>) \o replace(Tail(s), c, rep)

AMP == <<"&", "a", "m", "p", ";">>
GT == <<"&", "g", "t", ";">>
LT == <<"&", "l", "t", ";">>
BR == <<"<", "b", "r", "/", ">">>

\* escaping the angle brackets first, the ampersand last
escape_amp_last(data) == replace(replace(replace(data, ">", GT), "<", LT), "&", AMP)

\* xml.sax.saxutils.escape(data): "&" first, then ">" and "<"; quotes stay
escape(data) == replace(replace(replace(data, "&", AMP), ">", GT), "<", LT)

\* line 106
body_markup(analysis_text) == replace(escape(analysis_text), "\n", BR)

\* the labels of lines 101 and 102 (Korean text: no markup character)
time_label == <<"t", ":", " ">>
file_label == <<"f", ":", " ">>

\* lines 86 and 98-107
build_story(analysis_text, plan_filename, analyzed_at, font_name) ==
    [base_font |-> IF font_name # "" THEN font_name ELSE "Helvetica",
     time |-> time_label \o escape(analyzed_at),
     file |-> file_label \o escape(plan_filename),
     body |-> body_markup(analysis_text)]

NoStory == [base_font |-> "", time |-> <<>>, file |-> <<>>, body |-> <<>>]

\* What Paragraph makes of its markup: a sequence of literal characters and
\* tags.  "<" opens a tag that runs to the next ">" outside a quoted attribute
\* value; "&" opens one of the entities; every other character is literal.
Char(c) == [k |-> "char", v |-> <<c>>]
Tag(t) == [k |-> "tag", v |-> t]
Malformed == [k |-> "malformed", v |-> <<>>]

StartsWith(s, pre) == Len(s) >= Len(pre) /\ SubSeq(s, 1, Len(pre)) = pre
Drop(s, n) == SubSeq(s, n + 1, Len(s))

RECURSIVE TagEnd(_, _, _)
TagEnd(m, i, quoted) ==
    IF i > Len(m) THEN 0
    ELSE IF m[i] = "\"" THEN TagEnd(m, i + 1, ~quoted)
    ELSE IF m[i] = ">" /\ ~quoted THEN i
    ELSE TagEnd(m, i + 1, quoted)

RECURSIVE Parse(_)
Parse(m) ==
    IF m = <<>> THEN <<>>
    ELSE IF Head(m) = "<" THEN
        LET close == TagEnd(m, 2, FALSE)
        IN  IF close = 0 THEN <<Malformed>>
            ELSE <<Tag(SubSeq(m, 2, close - 1))>> \o Parse(Drop(m, close))
    ELSE IF Head(m) = "&" THEN
        IF StartsWith(m, AMP) THEN <<Char("&")>> \o Parse(Drop(m, Len(AMP)))
        ELSE IF StartsWith(m, LT) THEN <<Char("<")>> \o Parse(Drop(m, Len(LT)))
        ELSE IF StartsWith(m, GT) THEN <<Char(">")>> \o Parse(Drop(m, Len(GT)))
        ELSE <<Malformed>>
    ELSE <<Char(Head(m))>> \o Parse(Tail(m))

MarkupChars == {"&", "<", ">", "\"", "\n", "a"}
BodyTexts == StringsUpTo(MarkupChars, MaxBodyLen)
FileNames == StringsUpTo(MarkupChars, MaxNameLen)
\* a strftime result (line 194) and a text with markup characters
TimeTexts == {<<"1", ":", "2">>, <<"&", "<">>}
\* "" stands for None
FontArgs == {""} \cup FontNames

\* one call of build_pdf_bytes
BuildPdf ==
    /\ story = NoStory
    /\ story' = build_story(pdf_in.analysis_text, pdf_in.plan_filename,
                            pdf_in.analyzed_at, pdf_in.font_name)
    /\ UNCHANGED <<pdf_in, ex_vars, font_vars, th_vars, agg_vars, main_vars>>

\* C9: every free-text field reaches its paragraph escaped: read as markup, the
\* timestamp and filename paragraphs are their label and the field's characters
\* with no tag, and the body paragraph is the body's characters with one <br/>
\* tag in place of each newline and no other tag.
LiteralItems(s) == [i \in 1..Len(s) |-> Char(s[i])]
BodyItems(s) ==
    [i \in 1..Len(s) |-> IF s[i] = "\n" THEN Tag(<<"b", "r", "/">>) ELSE Char(s[i])]

C9_FreeTextIsEscaped ==
    story # NoStory =>
        /\ Parse(story.time) = LiteralItems(time_label \o pdf_in.analyzed_at)
        /\ Parse(story.file) = LiteralItems(file_label \o pdf_in.plan_filename)
        /\ Parse(story.body) = BodyItems(pdf_in.analysis_text)

C9_Witness ==
    /\ story # NoStory
    /\ pdf_in.analysis_text = <<"<", "\n", "&">>
    /\ pdf_in.plan_filename = <<"\"">>
    /\ pdf_in.analyzed_at = <<"&", "<">>
    /\ story.body = LT \o BR \o AMP

(***************************************************************************)
(* Claims about resolve_korean_font.                                       *)
(***************************************************************************)
\* C3: however the calls of several threads interleave, no font name is
\* registered with the rendering engine more than once.
C3_RegisteredOncePerName == \A n \in FontNames : reg_count[n] <= 1

Existing == {k \in DOMAIN candidates : fs[k] # "absent"}
Lowest(S) == CHOOSE k \in S : \A j \in S : k <= j

\* C5: over sequential calls with an unchanged filesystem each name is
\* registered at most once, a call that finds its name in the registry neither
\* registers nor fails, the registry only grows, and every call gives what the
\* first call gave.
C5_SequentialIdempotent ==
    /\ \A n \in FontNames : reg_count[n] <= 1
    /\ \A i \in DOMAIN font_log :
        LET c == font_log[i]
        IN  /\ c.before \subseteq c.after
            /\ c.after \subseteq registered
            /\ i > 1 => font_log[i - 1].after \subseteq c.before
            /\ (Existing # {} /\ candidates[Lowest(Existing)] \in c.before) =>
                   /\ c.registered_now = {}
                   /\ c.ret.kind = "font"
            /\ c.ret = font_log[1].ret

C5_Witness ==
    /\ Len(font_log) >= 2
    /\ font_log[1].registered_now = {"MalgunGothic"}
    /\ font_log[2].ret.kind = "font"
    /\ font_log[2].registered_now = {}
    /\ reg_count["MalgunGothic"] = 1

\* C6: a call gives the first candidate in priority order whose path exists,
\* whatever exists after it, and registers no other name; it gives (None, None)
\* exactly when no candidate path exists, and then registers nothing.  (The
\* call gives nothing at all only when line 65 raises: the first existing file
\* is no loadable font and its name is not registered yet.)
C6_FirstExistingWins ==
    \A i \in DOMAIN font_log :
        LET c == font_log[i]
        IN  /\ (Existing = {}) <=> (c.ret = NoFont)
            /\ Existing = {} => (c.after = c.before /\ c.registered_now = {})
            /\ Existing # {} =>
                   LET k == Lowest(Existing)
                   IN  /\ c.ret \in {Font(k), Raised}
                       /\ c.ret = Raised =>
                              (fs[k] = "notfont" /\ candidates[k] \notin c.before)
                       /\ c.registered_now \subseteq {candidates[k]}
                       /\ c.after \ c.before \subseteq {candidates[k]}

C6_Witness ==
    /\ Len(font_log) >= 1
    /\ fs[1] = "font" /\ fs[2] = "absent" /\ fs[3] = "font"
    /\ font_log[1].ret = Font(1)
    /\ registered = {"NanumGothic"}

(***************************************************************************)
(* main (src/app.py:112-218): one run of the script.  Streamlit runs the   *)
(* script from the top after every widget interaction.                     *)
(***************************************************************************)
SEP == <<"\n", "\n", "-", "-", "-", "\n", "\n">>

\* keeping every text, the empty ones too
keep_all(text) == TRUE

\* line 186
keep_text(text) == text # <<>>

\* lines 183-187 when no extraction raises: the law_texts list
RECURSIVE collect(_)
collect(texts) ==
    IF texts = <<>> THEN <<>>
    ELSE (IF keep_text(Head(texts)) THEN <<Head(texts)>> ELSE <<>>) \o collect(Tail(texts))

\* line 188
aggregate(law_texts) == strip(join(SEP, law_texts))

\* going on to the analysis whatever the text
never_stop(law_text) == FALSE

\* line 189
hard_stop(law_text) == law_text = <<>>

\* lines 183-187 over the documents from index i on: extract_pdf_text raises at
\* the first malformed document and the loop ends there
RECURSIVE extract_all(_, _)
extract_all(pdfs, i) ==
    IF i > Len(pdfs) THEN [raised |-> FALSE, extracted |-> {}, texts |-> <<>>]
    ELSE IF ~pdfs[i].ok THEN [raised |-> TRUE, extracted |-> {}, texts |-> <<>>]
    ELSE LET rest == extract_all(pdfs, i + 1)
             text == extract_pdf_text(pdfs[i].pages, max_chars_default)
         IN  [raised |-> rest.raised,
              extracted |-> {i} \cup rest.extracted,
              texts |-> IF rest.raised THEN <<>> ELSE <<text>> \o rest.texts]

ResultKeys == {"analysis_result", "analysis_time", "analysis_file"}
NoSession ==
    [keys |-> {}, analysis_result |-> <<>>, analysis_time |-> <<>>, analysis_file |-> <<>>]

\* a script run that did not reach the analysis
Quiet(outcome) ==
    [clicked |-> FALSE, outcome |-> outcome, extracted |-> {}, law_texts |-> <<>>,
     called |-> FALSE, law_text |-> <<>>]

\* lines 120-142: list_models answers or raises (the error is shown, no more)
sidebar(session, api, models_ok) ==
    IF api /\ models_ok
    THEN [session EXCEPT !.keys = @ \cup {"models_printed"}]
    ELSE session

\* lines 179-197: the analysis of one click.  answer is what the external
\* service gives ([ok, text], ok FALSE when the call raises), now the clock.
analysis(session, pdfs, name, answer, now) ==
    LET e == extract_all(pdfs, 1)
        law_texts == collect(e.texts)
        law_text == aggregate(law_texts)
        base == [clicked |-> TRUE, outcome |-> "error", extracted |-> e.extracted,
                 law_texts |-> <<>>, called |-> FALSE, law_text |-> <<>>]
    IN  IF e.raised THEN [session |-> session, run |-> base]
        ELSE IF hard_stop(law_text)
        THEN [session |-> session,
              run |-> [base EXCEPT !.outcome = "no_text", !.law_texts = law_texts]]
        ELSE IF ~answer.ok
        THEN [session |-> session,
              run |-> [base EXCEPT !.law_texts = law_texts, !.called = TRUE,
                                   !.law_text = law_text]]
        ELSE [session |-> [keys |-> session.keys \cup ResultKeys,
                           analysis_result |-> strip(answer.text),
                           analysis_time |-> now,
                           analysis_file |-> name],
              run |-> [base EXCEPT !.outcome = "analyzed", !.law_texts = law_texts,
                                   !.called = TRUE, !.law_text = law_text]]

\* lines 207-212: the arguments of build_pdf_bytes
pdf_args(session, font) ==
    [analysis_text |-> session.analysis_result,
     plan_filename |-> IF "analysis_file" \in session.keys
                       THEN session.analysis_file
                       ELSE <<"u", "n", "k", "n", "o", "w", "n", ".", "p", "n", "g">>,
     analyzed_at |-> IF "analysis_time" \in session.keys
                     THEN session.analysis_time ELSE <<"-">>,
     font_name |-> font.name]

\* The whole script run.  A run that ends before line 199 or at line 191, or in
\* which resolve_korean_font raises, builds no PDF.
ScriptRun(clicked, models_ok, answer, now) ==
    LET s1 == sidebar(session_state, api_key', models_ok)
        a == IF ~uploaded'.set THEN [session |-> s1, run |-> Quiet("no_image")]
             ELSE IF ~uploaded'.valid THEN [session |-> s1, run |-> Quiet("bad_image")]
             ELSE IF clicked THEN analysis(s1, law_pdfs', uploaded'.name, answer, now)
             ELSE [session |-> s1, run |-> Quiet("idle")]
        shows == /\ a.run.outcome \in {"idle", "analyzed", "error"}
                 /\ "analysis_result" \in a.session.keys
        r == Resolve(fs, registered)
    IN  /\ session_state' = a.session
        /\ run' = a.run
        /\ registered' = IF shows THEN registered \cup r.reg ELSE registered
        /\ reg_count' = IF shows THEN Bump(reg_count, r.reg) ELSE reg_count
        /\ IF shows /\ r.ret # Raised
           THEN /\ pdf_in' = pdf_args(a.session, r.ret)
                /\ story' = build_story(pdf_in'.analysis_text, pdf_in'.plan_filename,
                                        pdf_in'.analyzed_at, pdf_in'.font_name)
           ELSE /\ pdf_in' = pdf_in
                /\ story' = NoStory
        /\ UNCHANGED <<fs, font_log, ex_vars, th_vars, agg_vars>>

\* documents of the regulation uploader: not a PDF, a page of whitespace, a
\* text within max_chars (after a page without text), a text longer than it
MainDocs ==
    {[ok |-> FALSE, pages |-> <<>>],
     [ok |-> TRUE, pages |-> <<<<" ">>>>],
     [ok |-> TRUE, pages |-> <<<<>>, <<"a", "a", "a", "a", "a", " ">>>>],
     [ok |-> TRUE, pages |-> <<<<"a", "a", "a", "a", "a">>, <<"a", "a", "a", "a", "a">>>>]}
NoUpload == [set |-> FALSE, valid |-> FALSE, name |-> <<>>]
Uploads ==
    {[set |-> TRUE, valid |-> TRUE, name |-> <<"p">>],
     [set |-> TRUE, valid |-> TRUE, name |-> <<"<">>],
     [set |-> TRUE, valid |-> FALSE, name |-> <<"x">>]}
Answers ==
    {[ok |-> FALSE, text |-> <<>>],
     [ok |-> TRUE, text |-> <<"O", "K", " ", "<", "c", ">", "\n">>],
     [ok |-> TRUE, text |-> <<" ">>]}
Clock == {<<"1">>, <<"2">>}
NoAnswer == [ok |-> FALSE, text |-> <<>>]

\* line 123: genai.list_models() answers (TRUE) or raises; no key, no call
ListModels(api) == IF api THEN BOOLEAN ELSE {FALSE}

\* the user types or clears the API key
EnterApiKey ==
    \E k \in BOOLEAN, m \in ListModels(~api_key) :
        /\ api_key' = k
        /\ k # api_key
        /\ UNCHANGED <<uploaded, law_pdfs>>
        /\ ScriptRun(FALSE, m, NoAnswer, <<>>)

\* the user uploads a floor plan, or removes it
UploadPlan ==
    \E u \in Uploads \cup {NoUpload}, m \in ListModels(api_key) :
        /\ uploaded' = u
        /\ u # uploaded
        /\ UNCHANGED <<api_key, law_pdfs>>
        /\ ScriptRun(FALSE, m, NoAnswer, <<>>)

\* the user adds a regulation document to the uploader
AddLawPdf ==
    \E d \in MainDocs, m \in ListModels(api_key) :
        /\ Len(law_pdfs) < MaxBatch
        /\ law_pdfs' = Append(law_pdfs, d)
        /\ UNCHANGED <<api_key, uploaded>>
        /\ ScriptRun(FALSE, m, NoAnswer, <<>>)

\* the user removes one
RemoveLawPdf ==
    \E i \in DOMAIN law_pdfs, m \in ListModels(api_key) :
        /\ law_pdfs' = SubSeq(law_pdfs, 1, i - 1) \o SubSeq(law_pdfs, i + 1, Len(law_pdfs))
        /\ UNCHANGED <<api_key, uploaded>>
        /\ ScriptRun(FALSE, m, NoAnswer, <<>>)

\* lines 174-177: the button is there when the image opened (line 161) and
\* enabled when there are a key and documents
ClickAnalyze ==
    \E m \in BOOLEAN, answer \in Answers, now \in Clock :
        /\ uploaded.set /\ uploaded.valid
        /\ api_key /\ law_pdfs # <<>>
        /\ UNCHANGED <<api_key, uploaded, law_pdfs>>
        /\ ScriptRun(TRUE, m, answer, now)

(***************************************************************************)
(* The aggregation of lines 183-188 on the outputs of two documents.       *)
(***************************************************************************)
OutputChars == {"a", "-", " "}
AggDocs == {[ok |-> TRUE, pages |-> <<t>>] : t \in StringsUpTo(OutputChars, MaxOutputLen)}

Aggregate ==
    /\ ~agg_out.done
    /\ LET e == extract_all(agg_in, 1)
           law_texts == collect(e.texts)
       IN  agg_out' = [done |-> TRUE, texts |-> e.texts, law_text |-> aggregate(law_texts)]
    /\ UNCHANGED <<agg_in, ex_vars, font_vars, th_vars, pdf_vars, main_vars>>

(***************************************************************************)
(* Claims about main and its aggregation.                                  *)
(***************************************************************************)
Malformed_(pdfs) == {i \in DOMAIN pdfs : ~pdfs[i].ok}
TextOf(doc) == extract_pdf_text(doc.pages, max_chars_default)

\* C2: a document of the batch that cannot be parsed does not abort the others:
\* every other document is extracted and its text reaches the analysis run.
C2_SiblingsSurviveMalformed ==
    (run.clicked /\ Malformed_(law_pdfs) # {}) =>
        \A i \in DOMAIN law_pdfs :
            law_pdfs[i].ok =>
                /\ i \in run.extracted
                /\ TextOf(law_pdfs[i]) # <<>> =>
                       \E j \in DOMAIN run.law_texts : run.law_texts[j] = TextOf(law_pdfs[i])

\* C4: the law_text handed to analyze_floorplan is never longer than the
\* character budget, however many documents were uploaded.
C4_AggregateWithinBudget == run.called => Len(run.law_text) <= max_chars_default

\* every document parses and no page holds anything but whitespace
NoExtractableText(pdfs) ==
    \A i \in DOMAIN pdfs :
        /\ pdfs[i].ok
        /\ \A k \in DOMAIN pdfs[i].pages : \A c \in DOMAIN pdfs[i].pages[k] :
               pdfs[i].pages[k][c] \in WS

\* C7: a click on documents without extractable text is a hard stop: the run
\* does not call the reasoning service and leaves analysis_result,
\* analysis_time and analysis_file of the session state as they were.
C7_HardStopOnEmptyText ==
    [][(run'.clicked /\ NoExtractableText(law_pdfs')) =>
           /\ ~run'.called
           /\ run'.outcome = "no_text"
           /\ session_state'.keys \cap ResultKeys = session_state.keys \cap ResultKeys
           /\ session_state'.analysis_result = session_state.analysis_result
           /\ session_state'.analysis_time = session_state.analysis_time
           /\ session_state'.analysis_file = session_state.analysis_file]_vars

C7_Witness ==
    /\ run.clicked
    /\ NoExtractableText(law_pdfs)
    /\ Len(law_pdfs) = 2
    /\ run.outcome = "no_text"
    /\ "analysis_result" \in session_state.keys

\* the lines of a text
RECURSIVE Lines(_, _)
Lines(s, cur) ==
    IF s = <<>> THEN <<cur>>
    ELSE IF Head(s) = "\n" THEN <<cur>> \o Lines(Tail(s), <<>>)
    ELSE Lines(Tail(s), Append(cur, Head(s)))

SeparatorLines(s) ==
    Cardinality({i \in DOMAIN Lines(s, <<>>) : Lines(s, <<>>)[i] = <<"-", "-", "-">>})

NoOuterWhitespace(s) == s = <<>> \/ (s[1] \notin WS /\ s[Len(s)] \notin WS)

\* C8 as stated: the aggregate of any two extraction outputs has no leading or
\* trailing whitespace and holds exactly one separator line.
C8_ExactlyOneSeparator ==
    agg_out.done =>
        /\ NoOuterWhitespace(agg_out.law_text)
        /\ SeparatorLines(agg_out.law_text) = 1

\* C8 amended: the aggregate has no leading or trailing whitespace; two
\* non-empty outputs that hold no line of three hyphens themselves give exactly
\* one separator line; an empty output is skipped, so with an empty output the
\* aggregate is the other output, trimmed, with no separator added.
C8_OneSeparatorBetweenNonEmpty ==
    agg_out.done =>
        LET t1 == agg_out.texts[1]
            t2 == agg_out.texts[2]
        IN  /\ NoOuterWhitespace(agg_out.law_text)
            /\ (/\ t1 # <<>> /\ t2 # <<>>
                /\ SeparatorLines(strip(t1)) = 0 /\ SeparatorLines(strip(t2)) = 0)
                   => SeparatorLines(agg_out.law_text) = 1
            /\ (t1 = <<>> \/ t2 = <<>>) => agg_out.law_text = strip(t1 \o t2)

C8_Witness ==
    /\ agg_out.done
    /\ agg_out.texts = << <<"a">>, <<"-", " ", "a">> >>
    /\ agg_out.law_text = <<"a">> \o SEP \o <<"-", " ", "a">>

IdleExtract ==
    /\ ex_doc = [ok |-> TRUE, pages |-> <<>>]
    /\ ex_max = max_chars_default
    /\ ex_out = NoCall

IdleFont ==
    /\ fs = [i \in DOMAIN candidates |-> "absent"]
    /\ registered = {}
    /\ reg_count = [n \in FontNames |-> 0]
    /\ font_log = <<>>

IdleThreads ==
    /\ th_pc = [t \in Threads |-> "done"]
    /\ th_snap = [t \in Threads |-> {}]

IdleAgg ==
    /\ agg_in = <<>>
    /\ agg_out = [done |-> FALSE, texts |-> <<>>, law_text |-> <<>>]

IdleMain ==
    /\ api_key = FALSE
    /\ uploaded = NoUpload
    /\ law_pdfs = <<>>
    /\ session_state = NoSession
    /\ run = Quiet("no_image")

IdlePdf ==
    /\ pdf_in = [analysis_text |-> <<>>, plan_filename |-> <<>>,
                 analyzed_at |-> <<>>, font_name |-> ""]
    /\ story = NoStory

InitExtract ==
    /\ ex_doc \in Documents
    /\ ex_max \in MaxCharsArgs
    /\ ex_out = NoCall
    /\ IdleFont
    /\ IdleThreads
    /\ IdlePdf
    /\ IdleAgg
    /\ IdleMain

NextExtract == ExtractReturn \/ ExtractRaise

SpecExtract == InitExtract /\ [][NextExtract]_vars

\* a fresh process: nothing registered; the filesystem does not change
InitFont ==
    /\ fs \in [DOMAIN candidates -> FileKinds]
    /\ registered = {}
    /\ reg_count = [n \in FontNames |-> 0]
    /\ font_log = <<>>
    /\ IdleExtract
    /\ IdleThreads
    /\ IdlePdf
    /\ IdleAgg
    /\ IdleMain

NextFont == ResolveCall

SpecFont == InitFont /\ [][NextFont]_vars

InitFontThreads ==
    /\ fs \in [DOMAIN candidates -> FileKinds]
    /\ registered = {}
    /\ reg_count = [n \in FontNames |-> 0]
    /\ font_log = <<>>
    /\ th_pc = [t \in Threads |-> "start"]
    /\ th_snap = [t \in Threads |-> {}]
    /\ IdleExtract
    /\ IdlePdf
    /\ IdleAgg
    /\ IdleMain

NextFontThreads == \E t \in Threads : Snapshot(t) \/ Finish(t) \/ Again(t)

SpecFontThreads == InitFontThreads /\ [][NextFontThreads]_vars

InitPdf ==
    /\ pdf_in \in [analysis_text : BodyTexts, plan_filename : FileNames,
                    analyzed_at : TimeTexts, font_name : FontArgs]
    /\ story = NoStory
    /\ IdleExtract
    /\ IdleFont
    /\ IdleThreads
    /\ IdleAgg
    /\ IdleMain

NextPdf == BuildPdf

SpecPdf == InitPdf /\ [][NextPdf]_vars

InitAggregate ==
    /\ agg_in \in [1..2 -> AggDocs]
    /\ agg_out = [done |-> FALSE, texts |-> <<>>, law_text |-> <<>>]
    /\ IdleExtract
    /\ IdleFont
    /\ IdleThreads
    /\ IdlePdf
    /\ IdleMain

NextAggregate == Aggregate

SpecAggregate == InitAggregate /\ [][NextAggregate]_vars

\* a fresh session of a fresh process; the font files are what they are
MainFs ==
    {[i \in DOMAIN candidates |-> "absent"],
     [i \in DOMAIN candidates |-> IF i = 2 THEN "font" ELSE "absent"],
     [i \in DOMAIN candidates |-> IF i = 3 THEN "notfont" ELSE "absent"]}

InitMain ==
    /\ IdleMain
    /\ fs \in MainFs
    /\ registered = {}
    /\ reg_count = [n \in FontNames |-> 0]
    /\ font_log = <<>>
    /\ IdleExtract
    /\ IdleThreads
    /\ IdlePdf
    /\ IdleAgg

NextMain == EnterApiKey \/ UploadPlan \/ AddLawPdf \/ RemoveLawPdf \/ ClickAnalyze

SpecMain == InitMain /\ [][NextMain]_vars

====
